---- MODULE Spec2Model ----
(***************************************************************************)
(* Model of scripts/dir_lut.py: the integer direction lookup table         *)
(* (candidate generation, per-bucket ranking, best / closest-K / ladder    *)
(* selection), the Bresenham-style rasterizer draw_star and the CLI run    *)
(* main.                                                                   *)
(*                                                                         *)
(* Floating point: the code works on IEEE doubles (math.sin, math.cos,     *)
(* math.hypot, dx / length, nx * tx + ny * ty).  In the model sin and cos  *)
(* are tables of the doubles the code obtains, in 1/S units; hypot, the    *)
(* quotient and the dot product are carried exactly, as num / sqrt(sq), and*)
(* compared exactly.  Two doubles that are equal in exact arithmetic and   *)
(* that rounding separates in the code are equal in the model.             *)
(***************************************************************************)
EXTENDS Integers, Sequences, FiniteSets, TLC

(* ------------------------------ bounds -------------------------------- *)
MaxBuckets == 4      \* num_buckets ranges over 1..MaxBuckets
MaxComp    == 2      \* max_comp ranges over 1..MaxComp
MaxK       == 4      \* closest_k ranges over (1 - MaxK)..MaxK
MaxSize    == 4      \* draw_star canvas sizes 1..MaxSize
MaxLength  == 4      \* draw_star line lengths 1..MaxLength
MaxDirComp == 2      \* components of the directions handed to draw_star
MaxMainBuckets == 2  \* --buckets ranges over 1..MaxMainBuckets in main
MaxMainLength  == 1  \* --length ranges over 0..MaxMainLength in main

(* --------------------------- fixed point ------------------------------ *)
S == 1000            \* fixed-point units per 1.0

Abs(v) == IF v < 0 THEN -v ELSE v
Max2(a, b) == IF a >= b THEN a ELSE b
Min2(a, b) == IF a <= b THEN a ELSE b

RECURSIVE gcd(_, _)
gcd(a, b) == IF b = 0 THEN a ELSE gcd(b, a % b)

\* math.hypot(dx, dy): the real sqrt(sq)
hypot(dx, dy) == [sq |-> dx * dx + dy * dy]

\* the quotient v / length: the real num / sqrt(sq)
FDiv(v, length) == [num |-> v, sq |-> length.sq]

\* nx * tx + ny * ty for nx, ny over the same length and tx, ty in 1/S units
Dot(nx, ny, tx, ty) == [num |-> nx.num * tx + ny.num * ty, sq |-> nx.sq]

\* a > b for the reals a.num / sqrt(a.sq) and b.num / sqrt(b.sq)
RealGT(a, b) ==
    IF a.num >= 0 /\ b.num >= 0 THEN a.num * a.num * b.sq > b.num * b.num * a.sq
    ELSE IF a.num < 0 /\ b.num < 0 THEN a.num * a.num * b.sq < b.num * b.num * a.sq
    ELSE a.num >= 0 /\ b.num < 0

RealEQ(a, b) == ~RealGT(a, b) /\ ~RealGT(b, a)

\* math.sin(i * 2.0 * math.pi / n) and math.cos(...) as the doubles the code
\* obtains, in 1/S units.  A double that is not 0.0 keeps its sign (sin(pi)
\* is 1.2e-16, cos(3*pi/2) is -1.8e-16), and two components whose doubles
\* differ keep their order (n = 32: |sin| and |cos| of the odd multiples of
\* pi/4 differ by one ulp).
SinTable(n) ==
    CASE n = 1 -> <<0>>
      [] n = 2 -> <<0, 1>>
      [] n = 3 -> <<0, 866, -866>>
      [] n = 4 -> <<0, 1000, 1, -1000>>
      [] n = 5 -> <<0, 951, 588, -588, -951>>
      [] n = 6 -> <<0, 866, 866, 1, -866, -866>>
      [] n = 32 -> <<0, 195, 383, 556, 707, 831, 924, 981, 1000, 981, 924,
                     831, 708, 556, 383, 195, 1, -195, -383, -556, -707,
                     -831, -924, -981, -1000, -981, -924, -831, -708, -556,
                     -383, -195>>

CosTable(n) ==
    CASE n = 1 -> <<1000>>
      [] n = 2 -> <<1000, -1000>>
      [] n = 3 -> <<1000, -500, -500>>
      [] n = 4 -> <<1000, 1, -1000, -1>>
      [] n = 5 -> <<1000, 309, -809, -809, 309>>
      [] n = 6 -> <<1000, 500, -500, -1000, -500, 500>>
      [] n = 32 -> <<1000, 981, 924, 831, 708, 556, 383, 195, 1, -195, -383,
                     -556, -707, -831, -924, -981, -1000, -981, -924, -831,
                     -708, -556, -383, -195, -1, 195, 383, 556, 707, 831,
                     924, 981>>

\* tx = math.sin(theta), ty = math.cos(theta), theta = bucket_idx*2*pi/num_buckets
TargetX(bucket_idx, num_buckets) == SinTable(num_buckets)[bucket_idx + 1]
TargetY(bucket_idx, num_buckets) == CosTable(num_buckets)[bucket_idx + 1]

\* a list built element by element, as the evaluated list
List(f) == SubSeq(f, 1, Len(f))

\* range(lo, hi) as a sequence lo, lo+1, ..., hi-1
range(lo, hi) == [j \in 1..Max2(hi - lo, 0) |-> lo + j - 1]

\* seq[:k] of Python: k >= 0 keeps the first k elements, k < 0 drops the
\* last -k elements
PySlice(seq, k) ==
    IF k >= 0 THEN SubSeq(seq, 1, Min2(k, Len(seq)))
    ELSE SubSeq(seq, 1, Max2(Len(seq) + k, 0))

(* ------------------------ _build_candidates --------------------------- *)
Candidate(dx, dy) ==
    LET length == hypot(dx, dy)
        g == gcd(Abs(dx), Abs(dy))
    IN [dx |-> dx, dy |-> dy, m |-> Max2(Abs(dx), Abs(dy)),
        nx |-> FDiv(dx, length), ny |-> FDiv(dy, length),
        len2 |-> dx * dx + dy * dy,
        reduced |-> <<dx \div g, dy \div g>>]

_build_candidates(max_comp, require_maxcomp) ==
    LET comps == range(-max_comp, max_comp + 1)
        w == Len(comps)
        \* the iterations of the two nested loops, dx outer, dy inner
        pairs == [j \in 1..(w * w) |-> <<comps[((j - 1) \div w) + 1], comps[((j - 1) % w) + 1]>>]
        Kept(p) ==
            /\ ~(p[1] = 0 /\ p[2] = 0)
            /\ ~(require_maxcomp /\ Max2(Abs(p[1]), Abs(p[2])) # max_comp)
        kept == SelectSeq(pairs, Kept)
    IN List([j \in 1..Len(kept) |-> Candidate(kept[j][1], kept[j][2])])

(* --------------------- _rank_bucket_candidates ------------------------ *)
\* key = (dot, m, len2)
RankKey(c, tx, ty) == <<Dot(c.nx, c.ny, tx, ty), c.m, c.len2>>

\* tuple comparison a > b
KeyGT(a, b) ==
    \/ RealGT(a[1], b[1])
    \/ RealEQ(a[1], b[1]) /\ a[2] > b[2]
    \/ RealEQ(a[1], b[1]) /\ a[2] = b[2] /\ a[3] > b[3]

\* tuple comparison a == b
KeyEQ(a, b) == RealEQ(a[1], b[1]) /\ a[2] = b[2] /\ a[3] = b[3]

KeyGE(a, b) == ~KeyGT(b, a)

\* sorted(seq, key=lambda x: x[2], reverse=True): descending and stable, so
\* an element is preceded by the elements of greater key and by the earlier
\* elements of equal key
SortDesc(unsorted) ==
    LET seq == List(unsorted)
        Before(j) == Cardinality({i \in 1..Len(seq) :
                        \/ KeyGT(seq[i].key, seq[j].key)
                        \/ KeyEQ(seq[i].key, seq[j].key) /\ i < j})
        before == List([j \in 1..Len(seq) |-> Before(j)])
    IN List([p \in 1..Len(seq) |-> seq[CHOOSE j \in 1..Len(seq) : before[j] = p - 1]])

\* the loop over candidates that fills best_by_reduced, as the list of the
\* dict's values: a reduced form enters the dict at its first candidate and
\* keeps that place; its value is replaced only by a candidate of strictly
\* greater key, so it ends as the first candidate of greatest key
BestByReduced(candidates, tx, ty) ==
    LET n == Len(candidates)
        keys == List([j \in 1..n |-> RankKey(candidates[j], tx, ty)])
        Same(i, j) == candidates[i].reduced = candidates[j].reduced
        IsFirst(j) == \A i \in 1..(j - 1) : ~Same(i, j)
        firsts == SelectSeq([j \in 1..n |-> j], IsFirst)
        Final(f) == CHOOSE j \in 1..n :
                       /\ Same(f, j)
                       /\ \A i \in 1..n : Same(i, j) =>
                            /\ ~KeyGT(keys[i], keys[j])
                            /\ (KeyEQ(keys[i], keys[j]) => i >= j)
    IN List([p \in 1..Len(firsts) |->
               LET j == Final(firsts[p])
               IN [dx |-> candidates[j].dx, dy |-> candidates[j].dy, key |-> keys[j]]])

\* faulty variant: the sort without reverse=True
_rank_bucket_candidates_asc(bucket_idx, num_buckets, candidates, unique_slopes) ==
    LET tx == TargetX(bucket_idx, num_buckets)
        ty == TargetY(bucket_idx, num_buckets)
        all == [j \in 1..Len(candidates) |->
                  [dx |-> candidates[j].dx, dy |-> candidates[j].dy,
                   key |-> RankKey(candidates[j], tx, ty)]]
        desc == SortDesc(all)
    IN [j \in 1..Len(desc) |-> desc[Len(desc) + 1 - j]]

\* faulty variant: unique_slopes ignored
_rank_bucket_candidates_nodedup(bucket_idx, num_buckets, candidates, unique_slopes) ==
    LET tx == TargetX(bucket_idx, num_buckets)
        ty == TargetY(bucket_idx, num_buckets)
    IN SortDesc([j \in 1..Len(candidates) |->
                  [dx |-> candidates[j].dx, dy |-> candidates[j].dy,
                   key |-> RankKey(candidates[j], tx, ty)]])

_rank_bucket_candidates(bucket_idx, num_buckets, candidates, unique_slopes) ==
    LET tx == TargetX(bucket_idx, num_buckets)
        ty == TargetY(bucket_idx, num_buckets)
    IN IF unique_slopes
       THEN LET best_by_reduced == BestByReduced(candidates, tx, ty)
            IN SortDesc(best_by_reduced)
       ELSE SortDesc([j \in 1..Len(candidates) |->
                        [dx |-> candidates[j].dx, dy |-> candidates[j].dy,
                         key |-> RankKey(candidates[j], tx, ty)]])

(* --------------------------- best_int_dir ----------------------------- *)
\* faulty variant: range(num_buckets - 1)
best_int_dir_short(num_buckets, max_comp, require_maxcomp) ==
    LET candidates == _build_candidates(max_comp, require_maxcomp)
    IN [b \in 1..(num_buckets - 1) |->
          LET ranked == _rank_bucket_candidates(b - 1, num_buckets, candidates, FALSE)
          IN <<ranked[1].dx, ranked[1].dy>>]

best_int_dir(num_buckets, max_comp, require_maxcomp) ==
    LET candidates == _build_candidates(max_comp, require_maxcomp)
    IN [b \in 1..num_buckets |->
          LET ranked == _rank_bucket_candidates(b - 1, num_buckets, candidates, FALSE)
          IN <<ranked[1].dx, ranked[1].dy>>]

(* --------------------- ladder and closest_int_dirs -------------------- *)
_sign_or_one(v) == IF v > 0 THEN 1 ELSE IF v < 0 THEN -1 ELSE 1

\* faulty variant: range(1, max_comp + 1) in the first branch only
_ladder_candidates_for_bucket_short(bucket_idx, num_buckets, max_comp) ==
    LET sx == _sign_or_one(TargetX(bucket_idx, num_buckets))
        sy == _sign_or_one(TargetY(bucket_idx, num_buckets))
    IN [j \in 1..max_comp |-> <<sx, sy * j>>]

_ladder_candidates_for_bucket(bucket_idx, num_buckets, max_comp) ==
    LET tx == TargetX(bucket_idx, num_buckets)
        ty == TargetY(bucket_idx, num_buckets)
        sx == _sign_or_one(tx)
        sy == _sign_or_one(ty)
        majors == range(0, max_comp + 1)
    IN IF Abs(ty) >= Abs(tx)
       THEN [j \in 1..Len(majors) |->
               IF majors[j] = 0 THEN <<sx, 0>> ELSE <<sx, sy * majors[j]>>]
       ELSE [j \in 1..Len(majors) |->
               IF majors[j] = 0 THEN <<0, sy>> ELSE <<sx * majors[j], sy>>]

closest_int_dirs(num_buckets, max_comp, require_maxcomp, closest_k, unique_slopes, unit_minor) ==
    IF unit_minor
    THEN [b \in 1..num_buckets |->
            PySlice(_ladder_candidates_for_bucket(b - 1, num_buckets, max_comp), closest_k)]
    ELSE LET candidates == _build_candidates(max_comp, require_maxcomp)
         IN [b \in 1..num_buckets |->
               LET ranked == PySlice(
                       _rank_bucket_candidates(b - 1, num_buckets, candidates, unique_slopes),
                       closest_k)
               IN [j \in 1..Len(ranked) |-> <<ranked[j].dx, ranked[j].dy>>]]

(* ----------------------------- draw_star ------------------------------- *)
\* img = np.zeros((size, size), dtype=np.uint8): the cells that were assigned
\* are kept in data (indexed <<row, col>>), every other cell is 0
Zeros(sz) == [size |-> sz, data |-> [p \in {} |-> 0], error |-> FALSE]

Pixel(im, row, col) == IF <<row, col>> \in DOMAIN im.data THEN im.data[<<row, col>>] ELSE 0

\* img[row, col] = 255 in numpy: an index in -size..-1 counts from the end,
\* an index outside -size..size-1 raises IndexError
Store(im, row, col) ==
    IF row < -im.size \/ row >= im.size \/ col < -im.size \/ col >= im.size
    THEN [im EXCEPT !.error = TRUE]
    ELSE LET r == IF row < 0 THEN row + im.size ELSE row
             c == IF col < 0 THEN col + im.size ELSE col
         IN [im EXCEPT !.data = (<<r, c>> :> 255) @@ im.data]

\* faulty variant: no bounds test before the write
InCanvas_unchecked(px, py, sz) == TRUE

\* 0 <= x < size and 0 <= y < size
InCanvas(px, py, sz) == 0 <= px /\ px < sz /\ 0 <= py /\ py < sz

\* if 0 <= x < size and 0 <= y < size: img[y, x] = 255
Plot(im, px, py) == IF InCanvas(px, py, im.size) THEN Store(im, py, px) ELSE im

\* sx = 1 if dx > 0 else -1 if dx < 0 else 0
Sign(v) == IF v > 0 THEN 1 ELSE IF v < 0 THEN -1 ELSE 0

\* the branch of draw_line: TRUE for the loop that advances x every step
XMajor(dx, dy) == Abs(dx) >= Abs(dy)

\* faulty variant: cx = cy = (size - 1) // 2
LineInit_lowcenter(dx, dy, sz) ==
    [x |-> (sz - 1) \div 2, y |-> (sz - 1) \div 2,
     err |-> IF XMajor(dx, dy) THEN Abs(dx) \div 2 ELSE Abs(dy) \div 2]

\* faulty variant: err = dx_abs (not halved)
LineInit_nohalf(dx, dy, sz) ==
    [x |-> sz \div 2, y |-> sz \div 2,
     err |-> IF XMajor(dx, dy) THEN Abs(dx) ELSE Abs(dy)]

\* x, y = cx, cy and err = dx_abs // 2 (or dy_abs // 2)
LineInit(dx, dy, sz) ==
    [x |-> sz \div 2, y |-> sz \div 2,
     err |-> IF XMajor(dx, dy) THEN Abs(dx) \div 2 ELSE Abs(dy) \div 2]

\* the rest of one loop iteration, after the pixel write
LineAdvance(st, dx, dy) ==
    IF XMajor(dx, dy)
    THEN LET e == st.err - Abs(dy)
         IN IF e < 0
            THEN [x |-> st.x + Sign(dx), y |-> st.y + Sign(dy), err |-> e + Abs(dx)]
            ELSE [x |-> st.x + Sign(dx), y |-> st.y, err |-> e]
    ELSE LET e == st.err - Abs(dx)
         IN IF e < 0
            THEN [x |-> st.x + Sign(dx), y |-> st.y + Sign(dy), err |-> e + Abs(dy)]
            ELSE [x |-> st.x, y |-> st.y + Sign(dy), err |-> e]

RECURSIVE LineLoop(_, _, _, _, _)
\* the remaining n iterations of the for loop of draw_line
LineLoop(im, st, dx, dy, n) ==
    IF n = 0 \/ im.error THEN im
    ELSE LineLoop(Plot(im, st.x, st.y), LineAdvance(st, dx, dy), dx, dy, n - 1)

draw_line(im, dx, dy, len) == LineLoop(im, LineInit(dx, dy, im.size), dx, dy, Max2(len, 0))

RECURSIVE DrawFrom(_, _, _, _)
DrawFrom(im, ds, j, len) ==
    IF j > Len(ds) \/ im.error THEN im
    ELSE DrawFrom(draw_line(im, ds[j][1], ds[j][2], len), ds, j + 1, len)

draw_star(ds, len, sz) == DrawFrom(Zeros(sz), ds, 1, len)

DefaultSize == 260   \* draw_star(dirs, length=20, size=260)

(* ------------------------------- state -------------------------------- *)
VARIABLES
    call, args, result,        \* a call of best_int_dir / closest_int_dirs
    dirs, length, size, img,   \* a call of draw_star: arguments and buffer
    line, step, x, y, err,     \* draw_line: current direction, loop counter, locals
    dpc, visited,              \* draw_star control point; positions the loops tested
    margs, mpc, out,           \* main: parsed args, control point, printed lines
    mdirs, mimg, file, raised  \* main: dirs, img, saved file, exception

selVars  == <<call, args, result>>
drawVars == <<dirs, length, size, img, line, step, x, y, err, dpc, visited>>
mainVars == <<margs, mpc, out, mdirs, mimg, file, raised>>
vars == <<selVars, drawVars, mainVars>>

\* an optional value: None, or Some(v)
None == << >>
Some(v) == <<v>>
NoCall == [status |-> "pending", value |-> << >>]

SelIdle == call = "none" /\ args = None /\ result = NoCall
DrawIdle ==
    /\ dirs = << >> /\ length = 0 /\ size = 0 /\ img = None
    /\ line = 0 /\ step = 0 /\ x = 0 /\ y = 0 /\ err = 0
    /\ dpc = "idle" /\ visited = {}
MainIdle ==
    /\ margs = None /\ mpc = "idle" /\ out = << >>
    /\ mdirs = None /\ mimg = None /\ file = None /\ raised = "none"

(* ---------------- calls of the selection functions -------------------- *)
BucketCounts == 1..MaxBuckets
MaxComps == 1..MaxComp
ClosestKs == (1 - MaxK)..MaxK

Call_best_int_dir ==
    /\ call = "none"
    /\ \E n \in BucketCounts, mc \in MaxComps, req \in BOOLEAN :
         /\ args' = [num_buckets |-> n, max_comp |-> mc, require_maxcomp |-> req]
         /\ result' = [status |-> "returned", value |-> best_int_dir(n, mc, req)]
    /\ call' = "best_int_dir"
    /\ UNCHANGED <<drawVars, mainVars>>

\* the small grid of arguments, and the default table of the CLI
\* (32 buckets, max_comp 8) in ladder mode
ClosestArgs ==
    [num_buckets : BucketCounts, max_comp : MaxComps, require_maxcomp : BOOLEAN,
     closest_k : ClosestKs, unique_slopes : BOOLEAN, unit_minor : BOOLEAN]
    \cup
    [num_buckets : {32}, max_comp : {8}, require_maxcomp : BOOLEAN,
     closest_k : {3}, unique_slopes : BOOLEAN, unit_minor : {TRUE}]

Call_closest_int_dirs ==
    /\ call = "none"
    /\ \E a \in ClosestArgs :
         /\ args' = a
         /\ result' = [status |-> "returned",
                       value |-> closest_int_dirs(a.num_buckets, a.max_comp,
                                     a.require_maxcomp, a.closest_k,
                                     a.unique_slopes, a.unit_minor)]
    /\ call' = "closest_int_dirs"
    /\ UNCHANGED <<drawVars, mainVars>>

SelInit == SelIdle /\ DrawIdle /\ MainIdle
SelNext == Call_best_int_dir \/ Call_closest_int_dirs
SelSpec == SelInit /\ [][SelNext]_vars

(* --------------------------- draw_star steps -------------------------- *)
DirSet == {d \in (-MaxDirComp..MaxDirComp) \X (-MaxDirComp..MaxDirComp) : d # <<0, 0>>}
\* the lists of directions: every single direction, and the tables that
\* best_int_dir produces (what main hands to draw_star)
DirLists ==
    {<<d>> : d \in DirSet}
    \cup {best_int_dir(n, mc, req) : n \in BucketCounts, mc \in MaxComps, req \in BOOLEAN}

\* the arguments of draw_star: the small grid, and the line (8, 0) of
\* length 5 on the default canvas
DrawArgs ==
    [dirs : DirLists, length : 1..MaxLength, size : 1..MaxSize]
    \cup
    [dirs : {<< <<8, 0>> >>, << <<0, -8>> >>}, length : {5}, size : {DefaultSize}]

DrawInit ==
    /\ SelIdle /\ MainIdle
    /\ \E a \in DrawArgs : dirs = a.dirs /\ length = a.length /\ size = a.size
    /\ img = Zeros(size)
    /\ line = 0 /\ step = 0 /\ x = 0 /\ y = 0 /\ err = 0
    /\ dpc = "for_dirs" /\ visited = {}

\* for dx, dy in dirs: draw_line(dx, dy) -- entry of draw_line
BeginLine ==
    /\ dpc = "for_dirs" /\ line < Len(dirs)
    /\ LET st == LineInit(dirs[line + 1][1], dirs[line + 1][2], size)
       IN x' = st.x /\ y' = st.y /\ err' = st.err
    /\ line' = line + 1 /\ step' = 0 /\ dpc' = "for_length"
    /\ UNCHANGED <<dirs, length, size, img, visited, selVars, mainVars>>

LoopBody ==
    /\ dpc = "for_length" /\ step < length
    /\ LET im == Plot(img, x, y)
           st == LineAdvance([x |-> x, y |-> y, err |-> err],
                             dirs[line][1], dirs[line][2])
       IN /\ img' = im
          /\ x' = st.x /\ y' = st.y /\ err' = st.err
          /\ dpc' = IF im.error THEN "IndexError" ELSE "for_length"
    /\ visited' = visited \cup {<<x, y>>}
    /\ step' = step + 1
    /\ UNCHANGED <<dirs, length, size, line, selVars, mainVars>>

\* one iteration of the loop under "if dx_abs >= dy_abs"
StepXMajor == dpc = "for_length" /\ XMajor(dirs[line][1], dirs[line][2]) /\ LoopBody

\* one iteration of the loop under "else"
StepYMajor == dpc = "for_length" /\ ~XMajor(dirs[line][1], dirs[line][2]) /\ LoopBody

\* the for loop of draw_line is exhausted
EndLine ==
    /\ dpc = "for_length" /\ step >= length
    /\ dpc' = "for_dirs"
    /\ UNCHANGED <<dirs, length, size, img, line, step, x, y, err, visited,
                   selVars, mainVars>>

\* return img
ReturnImg ==
    /\ dpc = "for_dirs" /\ line >= Len(dirs)
    /\ dpc' = "returned"
    /\ UNCHANGED <<dirs, length, size, img, line, step, x, y, err, visited,
                   selVars, mainVars>>

DrawNext == BeginLine \/ StepXMajor \/ StepYMajor \/ EndLine \/ ReturnImg
DrawSpec == DrawInit /\ [][DrawNext]_vars /\ WF_vars(DrawNext)

(* -------------------------------- main -------------------------------- *)
MainArgs ==
    [buckets : 1..MaxMainBuckets, maxcomp : MaxComps, length : 0..MaxMainLength, closest_k : ClosestKs,
     unique_slopes : BOOLEAN, closest_unit_minor : BOOLEAN,
     require_maxcomp : BOOLEAN, out : {"", "lut.png"}]

\* args = ap.parse_args(); --out defaults to None, written ""
MainInit ==
    /\ SelIdle /\ DrawIdle
    /\ margs \in MainArgs
    /\ mpc = "best_int_dir" /\ out = << >>
    /\ mdirs = None /\ mimg = None /\ file = None /\ raised = "none"

\* dirs = best_int_dir(args.buckets, args.maxcomp, args.require_maxcomp)
ComputeDirs ==
    /\ mpc = "best_int_dir"
    /\ mdirs' = Some(best_int_dir(margs.buckets, margs.maxcomp, margs.require_maxcomp))
    /\ mpc' = "validate"
    /\ UNCHANGED <<margs, out, mimg, file, raised, selVars, drawVars>>

\* faulty variant: closest_k < 0 tested instead of closest_k < 1
Validate_nonneg ==
    /\ mpc = "validate"
    /\ IF margs.closest_k < 0
       THEN raised' = "ValueError" /\ mpc' = "aborted"
       ELSE raised' = raised /\ mpc' = "print_lut"
    /\ UNCHANGED <<margs, out, mdirs, mimg, file, selVars, drawVars>>

\* if args.closest_k < 1: raise ValueError("--closest-k must be >= 1")
Validate ==
    /\ mpc = "validate"
    /\ IF margs.closest_k < 1
       THEN raised' = "ValueError" /\ mpc' = "aborted"
       ELSE raised' = raised /\ mpc' = "print_lut"
    /\ UNCHANGED <<margs, out, mdirs, mimg, file, selVars, drawVars>>

\* the header line and one line per bucket
PrintLut ==
    /\ mpc = "print_lut"
    /\ out' = out
         \o << [line |-> "# LUT", buckets |-> margs.buckets,
                maxcomp |-> margs.maxcomp, require_maxcomp |-> margs.require_maxcomp] >>
         \o [j \in 1..Len(mdirs[1]) |-> [line |-> "dir", i |-> j - 1, v |-> mdirs[1][j]]]
    /\ mpc' = IF margs.closest_k > 1 THEN "closest" ELSE "draw_star"
    /\ UNCHANGED <<margs, mdirs, mimg, file, raised, selVars, drawVars>>

\* if args.closest_k > 1: closest = closest_int_dirs(...) and its table
PrintClosest ==
    /\ mpc = "closest"
    /\ LET closest == closest_int_dirs(margs.buckets, margs.maxcomp,
                          margs.require_maxcomp, margs.closest_k,
                          margs.unique_slopes, margs.closest_unit_minor)
       IN out' = out
            \o << [line |-> "# Closest candidates per bucket", k |-> margs.closest_k,
                   unique_slopes |-> margs.unique_slopes,
                   unit_minor |-> margs.closest_unit_minor] >>
            \o [j \in 1..Len(closest) |-> [line |-> "options", i |-> j - 1, v |-> closest[j]]]
    /\ mpc' = "draw_star"
    /\ UNCHANGED <<margs, mdirs, mimg, file, raised, selVars, drawVars>>

\* img = draw_star(dirs, length=args.length) and the first size report
Rasterize ==
    /\ mpc = "draw_star"
    /\ mimg' = Some(draw_star(mdirs[1], margs.length, DefaultSize))
    /\ out' = Append(out, [line |-> "# Raster image size",
                           w |-> DefaultSize, h |-> DefaultSize])
    /\ mpc' = "save"
    /\ UNCHANGED <<margs, mdirs, file, raised, selVars, drawVars>>

\* Image.fromarray(img, mode="L").save(out_path) and the second size report
Save ==
    /\ mpc = "save"
    /\ file' = Some([path |-> IF margs.out # "" THEN <<margs.out>>
                              ELSE <<"dir_", margs.buckets, "_max", margs.maxcomp,
                                     "_len", margs.length, ".png">>,
                      image |-> mimg[1]])
    /\ out' = Append(out, [line |-> "# Output image size",
                           w |-> mimg[1].size, h |-> mimg[1].size])
    /\ mpc' = "done"
    /\ UNCHANGED <<margs, mdirs, mimg, raised, selVars, drawVars>>

MainNext == ComputeDirs \/ Validate \/ PrintLut \/ PrintClosest \/ Rasterize \/ Save
MainSpec == MainInit /\ [][MainNext]_vars

(* ===================== properties of the selection ==================== *)
\* the candidates of the search window, as a set
Window(max_comp, require_maxcomp) ==
    {v \in (-max_comp..max_comp) \X (-max_comp..max_comp) :
        /\ v # <<0, 0>>
        /\ require_maxcomp => Max2(Abs(v[1]), Abs(v[2])) = max_comp}

\* the RankKey of vector v for bucket i of n
KeyOf(v, i, n) == RankKey(Candidate(v[1], v[2]), TargetX(i, n), TargetY(i, n))

Returned(f) == call = f /\ result.status = "returned"

\* C1: the vector best_int_dir returns for bucket i has a RankKey greater than
\* or equal to the RankKey of every candidate of the same max_comp and
\* require_maxcomp.
C1_BestIsMaximal ==
    Returned("best_int_dir") =>
        \A b \in 1..args.num_buckets :
            /\ b \in DOMAIN result.value
            /\ \A c \in Window(args.max_comp, args.require_maxcomp) :
                 KeyGE(KeyOf(result.value[b], b - 1, args.num_buckets),
                       KeyOf(c, b - 1, args.num_buckets))

C1_Witness ==
    /\ Returned("best_int_dir")
    /\ args.num_buckets = 3 /\ args.max_comp = 2 /\ ~args.require_maxcomp
    /\ result.value[2] = <<2, -1>>

\* C2: best_int_dir returns exactly num_buckets vectors, none of them (0, 0).
C2_OnePerBucket ==
    Returned("best_int_dir") =>
        /\ Len(result.value) = args.num_buckets
        /\ \A b \in 1..Len(result.value) : result.value[b] # <<0, 0>>

C2_Witness ==
    /\ Returned("best_int_dir")
    /\ args.num_buckets = 4 /\ args.require_maxcomp
    /\ Len(result.value) = 4

\* u is a positive scalar multiple of v (both nonzero): parallel and on the
\* same side
PosMultiple(u, v) == u[1] * v[2] = u[2] * v[1] /\ u[1] * v[1] + u[2] * v[2] > 0

\* C3: with unique_slopes and without unit_minor, for closest_k >= 1, no bucket
\* of closest_int_dirs lists two distinct vectors that are positive scalar
\* multiples of each other.
C3_UniqueSlopes ==
    (Returned("closest_int_dirs") /\ args.unique_slopes /\ ~args.unit_minor
        /\ args.closest_k >= 1) =>
        \A b \in DOMAIN result.value :
            \A i, j \in DOMAIN result.value[b] :
                result.value[b][i] # result.value[b][j] =>
                    ~PosMultiple(result.value[b][i], result.value[b][j])

C3_Witness ==
    /\ Returned("closest_int_dirs") /\ args.unique_slopes /\ ~args.unit_minor
    /\ args.max_comp = 2 /\ args.closest_k = 3 /\ ~args.require_maxcomp
    /\ \E b \in DOMAIN result.value : Len(result.value[b]) = 3

DefaultLadder ==
    /\ Returned("closest_int_dirs") /\ args.unit_minor
    /\ args.num_buckets = 32 /\ args.max_comp = 8 /\ args.closest_k = 3

C5_RaisesBelowOne ==
    (call = "closest_int_dirs" /\ args.closest_k < 1) => result.status = "raised"

\* C9 as stated: in ladder mode every bucket's list has exactly closest_k
\* vectors, whatever max_comp.
C9_ExactlyK ==
    (Returned("closest_int_dirs") /\ args.unit_minor /\ args.closest_k >= 1) =>
        \A b \in 1..args.num_buckets :
            b \in DOMAIN result.value /\ Len(result.value[b]) = args.closest_k

\* C9 amended: in ladder mode, for closest_k >= 1, every bucket's list has
\* exactly min(closest_k, max_comp + 1) vectors, and no component exceeds
\* max_comp in magnitude.
C9_MinKLadder ==
    (Returned("closest_int_dirs") /\ args.unit_minor /\ args.closest_k >= 1) =>
        \A b \in 1..args.num_buckets :
            /\ b \in DOMAIN result.value
            /\ Len(result.value[b]) = Min2(args.closest_k, args.max_comp + 1)
            /\ \A j \in 1..Len(result.value[b]) :
                 Max2(Abs(result.value[b][j][1]), Abs(result.value[b][j][2]))
                     <= args.max_comp

C9_Witness ==
    /\ Returned("closest_int_dirs") /\ args.unit_minor
    /\ args.max_comp = 1 /\ args.closest_k = 3 /\ args.num_buckets = 2
    /\ Len(result.value[2]) = 2

(* ======================= properties of draw_star ====================== *)
\* the direction draw_line is drawing
CurDx == dirs[line][1]
CurDy == dirs[line][2]
Dominant == Max2(Abs(CurDx), Abs(CurDy))

\* the pixel (px, py) is 255 exactly when the loops tested that position
LitIsVisited ==
    \A px \in 0..(size - 1), py \in 0..(size - 1) :
        Pixel(img, py, px) = IF <<px, py>> \in visited THEN 255 ELSE 0

\* C7: a single axis-aligned direction lights exactly the `length` consecutive
\* pixels from the center along that axis, towards the sign of the nonzero
\* component, as far as they lie inside the canvas; every other pixel is 0.
C7_AxisLine ==
    (dpc = "returned" /\ Len(dirs) = 1 /\ (dirs[1][1] = 0 \/ dirs[1][2] = 0)) =>
        LET c == size \div 2
            ux == IF dirs[1][1] > 0 THEN 1 ELSE IF dirs[1][1] < 0 THEN -1 ELSE 0
            uy == IF dirs[1][2] > 0 THEN 1 ELSE IF dirs[1][2] < 0 THEN -1 ELSE 0
            OnLine(px, py) == \E j \in 0..(length - 1) :
                                 px = c + j * ux /\ py = c + j * uy
        IN /\ \A px \in 0..(size - 1), py \in 0..(size - 1) :
                Pixel(img, py, px) = IF OnLine(px, py) THEN 255 ELSE 0
           /\ \A p \in DOMAIN img.data :
                p[1] \in 0..(size - 1) /\ p[2] \in 0..(size - 1)

C7_Witness ==
    /\ dpc = "returned" /\ dirs = << <<8, 0>> >> /\ length = 5 /\ size = DefaultSize
    /\ \A j \in 0..4 : Pixel(img, 130, 130 + j) = 255
    /\ Cardinality(DOMAIN img.data) = 5

\* C8: draw_line performs all `length` steps and terminates without error;
\* every write lands inside the canvas at the position the loop is at (no
\* wrap-around, no clamping), and every pixel is 0 or 255.
C8_Clipped ==
    /\ [](/\ ~img.error /\ dpc # "IndexError"
          /\ \A p \in DOMAIN img.data :
               /\ p[1] \in 0..(size - 1) /\ p[2] \in 0..(size - 1)
               /\ <<p[2], p[1]>> \in visited
          /\ LitIsVisited
          /\ step <= length)
    /\ [][(dpc = "for_length" /\ dpc' = "for_dirs") => step = length]_vars
    /\ <>(dpc = "returned")

C8_Witness ==
    /\ dpc = "returned" /\ size = 3 /\ length = 3
    /\ \E p \in visited : p[1] < 0 \/ p[1] >= size \/ p[2] < 0 \/ p[2] >= size
    /\ Cardinality(DOMAIN img.data) < Cardinality(visited)

\* C10: at every step the dominant axis (x when |dx| >= |dy|, otherwise y)
\* moves by exactly one towards its sign and the other axis by at most one;
\* err starts at max(|dx|,|dy|) // 2 and satisfies 0 <= err < max(|dx|,|dy|)
\* between steps.
C10_Bresenham ==
    /\ [](dpc = "for_length" => (0 <= err /\ err < Dominant))
    /\ [][(line' = line + 1) =>
             err' = Max2(Abs(dirs[line'][1]), Abs(dirs[line'][2])) \div 2]_vars
    /\ [][(step' = step + 1) =>
             IF Abs(CurDx) >= Abs(CurDy)
             THEN /\ x' - x = (IF CurDx > 0 THEN 1 ELSE -1)
                  /\ y' - y \in {-1, 0, 1}
             ELSE /\ y' - y = (IF CurDy > 0 THEN 1 ELSE -1)
                  /\ x' - x \in {-1, 0, 1}]_vars

C10_Witness ==
    /\ dpc = "for_length" /\ step = 2 /\ line = 1
    /\ dirs[1] = <<2, -1>> /\ size = 3
    /\ x = 3 /\ y = 0 /\ err = 1

(* ========================== properties of main ======================== *)
\* C6: when --closest-k is below 1 the run aborts with the validation error
\* before any output: nothing is printed, the rasterizer is not invoked and no
\* file is written.
C6_FailFast ==
    (mpc # "idle" /\ margs.closest_k < 1) =>
        /\ out = << >> /\ mimg = None /\ file = None
        /\ mpc \in {"best_int_dir", "validate", "aborted"}
        /\ mpc = "aborted" => raised = "ValueError"
        /\ mpc # "aborted" => raised = "none"

C6_Witness ==
    /\ mpc = "aborted" /\ raised = "ValueError" /\ margs.closest_k = 0
    /\ mdirs # None /\ out = << >> /\ file = None

====
